---- MODULE Spec2Model ----
(***************************************************************************)
(* Parallelization layer of OM (om.parallelization_layer.mpi and           *)
(* om.parallelization_layer.parallel_zmq): one collecting node (rank 0)    *)
(* and PoolSize-1 processing nodes exchanging data envelopes, feedback     *)
(* dictionaries and shutdown messages.                                     *)
(*                                                                         *)
(* Granularity: one action is one iteration of a node's loop (or the code  *)
(* that follows the loop).  Each probe of an iteration is non-blocking, so *)
(* an iteration is equivalent to one in which all of its probes happen at  *)
(* one instant.  A KeyboardInterrupt is delivered between two iterations   *)
(* of the collecting loop.  A sent message is at once visible to the       *)
(* destination's probe.  Messages of one (source, destination, tag) are    *)
(* FIFO, and so are the messages of one ZMQ socket pair.  The ZMQ          *)
(* subscriptions are taken to be established before the first publish.     *)
(*                                                                         *)
(* When an MPI send completes is left to the MPI library: sendmode is      *)
(* "eager" when a send completes without the matching receive (the         *)
(* message is buffered) and "rendezvous" when req.Wait() returns only      *)
(* after the destination has received the message.  Spec, FairSpec and     *)
(* LongRunSpec are the runs with buffered sends; RendezvousSpec is the     *)
(* MPI runs with rendezvous sends.  ZMQ sends are always buffered.         *)
(*                                                                         *)
(* The module also holds the static sharding of the file-based data event  *)
(* handlers (ShardSpec), the EventCounter (CounterSpec) and the            *)
(* construction and start of the two layers (StartSpec).                   *)
(***************************************************************************)
EXTENDS Integers, Sequences, FiniteSets, TLC

\* Bounds of the model.
PoolSize == 3
MaxEvents == 2
\* the longest source file list and the largest node_pool_size
MaxFiles == 5
MaxPool == 8
\* the largest interval, event count and number of speed reports of an EventCounter
MaxInterval == 2
MaxCount == 3
MaxReports == 2
MaxRequests == 16    \* calls of get_rank_for_frame_request
MaxCalls == 16       \* calls of a monitor's collect_data
MaxQueries == 2      \* calls of the query operations of an EventCounter
MaxIdle == 2         \* calls of wait_for_data that are counted
MaxRank == 11        \* ranks of the SUB sockets and of the topics published

VARIABLES
    backend,               \* "mpi" or "zmq": which Parallelization Layer runs
    sendmode,              \* "eager" or "rendezvous": when an MPI send completes
    layer,                 \* which feedback the processing layer's collect_data returns
    cpc,                   \* collecting node: position in start()/shutdown()
    num_no_more,           \* self._num_no_more
    num_collected_events,  \* self._num_collected_events
    num_shutdown_confirm,  \* shutdown(): num_shutdown_confirm
    todo,                  \* collecting node: the feedback sends of this iteration not yet issued
    wpc,                   \* processing nodes: position in the producing code
    dataq,                 \* per rank: envelopes sent to rank 0 (tag data / PUSH), unreceived
    fbq,                   \* per rank: messages from rank 0 (tag feedback / SUB socket), unreceived
    die,                   \* per rank: a message with tag die is pending (MPI)
    dead,                  \* per rank: messages sent with tag dead (MPI)
    yielded,               \* per rank: events the event generator has yielded
    max_events,            \* events and final data the layers produce in this run, at most
    \* history of the calls into the layers
    failed,                \* per rank: events whose extract_data raised OmDataExtractionError
    ends_received,         \* per rank: end messages of that rank received by the collecting loop
    sent,                  \* per rank: the envelopes sent with tag data / pushed, in order
    end_calls,             \* per rank (0 included): calls of end_processing_on_*_node
    collected,             \* per rank: the envelopes passed to collect_data, in order
    owed,                  \* per rank: an all-nodes feedback arrived and no record was processed since
    \* the monitor on the collecting node (processing_layer.testing)
    monitor_num_events,    \* TestProcessing._num_events
    idle_calls,            \* calls of wait_for_data, counted up to max_idle
    max_idle,              \* how many calls of wait_for_data this run counts
    \* the file-based data event handlers (data_event_handlers_files)
    filelist,              \* the lines of the source file, named by their position
    node_pool_size,        \* the node_pool_size the handlers and the engine are given
    initialized,           \* ranks whose initialize_event_handling_on_processing_node has run
    files_curr_node,       \* per rank: self._files_curr_node
    \* EventCounter (lib.event_management); an Optional[int] is <<>> or <<k>>
    speed_report_interval,
    data_broadcast_interval,
    hit_frame_sending_interval,
    non_hit_frame_sending_interval,
    num_events,            \* self._num_events
    num_hits,              \* self._num_hits
    ranks_for_frame_request, \* self._ranks_for_frame_request: position in cycle(range(1, node_pool_size))
    hit_calls,             \* calls of add_hit_event
    non_hit_calls,         \* calls of add_non_hit_event
    requested,             \* the ranks get_rank_for_frame_request has returned, in order
    report_calls,          \* calls of report_speed
    num_reports,           \* speed reports logged by report_speed
    raised,                \* a call on the EventCounter raised ZeroDivisionError
    \* construction and start of a Parallelization Layer
    engine_backend,        \* the layer being constructed
    engine,                \* position in __init__()/start()
    processing_nodes,      \* len(self._processing_nodes)
    nodes_started,         \* processes started by start()
    \* one publication on the PUB socket and one SUB socket
    sub_rank,              \* the rank of the subscribing processing node
    topic_rank,            \* the publication's topic: 0 for "all#", s for f"{s}#"
    delivered,             \* "pending", then whether the SUB socket received it
    \* one monitor's collect_data, called on its own
    collect_calls,         \* calls of collect_data
    broadcasts,            \* the calls, by their ordinal, that sent data to the broadcast socket
    \* the query operations of the EventCounter
    query_calls,           \* calls of the operations that only return a value
    returned               \* the operation called last and the value it returned

\* the monitor's variables
monitor == <<monitor_num_events, idle_calls>>

\* the variables of the running Parallelization Layer
nodevars == <<backend, sendmode, layer, max_events, max_idle, cpc, num_no_more,
              num_collected_events, num_shutdown_confirm, todo, wpc, dataq, fbq, die, dead,
              yielded, failed, ends_received, sent, end_calls, collected, owed>>

parvars == <<nodevars, monitor>>

\* the variables of the other components
shardvars == <<filelist, initialized, files_curr_node>>

intervals == <<speed_report_interval, data_broadcast_interval, hit_frame_sending_interval,
               non_hit_frame_sending_interval>>

countervars == <<intervals, num_events, num_hits, ranks_for_frame_request, hit_calls,
                 non_hit_calls, requested, report_calls, num_reports, raised>>

startvars == <<engine_backend, engine, processing_nodes, nodes_started>>

topicvars == <<sub_rank, topic_rank, delivered>>

collectvars == <<collect_calls, broadcasts>>

queryvars == <<query_calls, returned>>

aux == <<shardvars, countervars, startvars, topicvars, collectvars, queryvars, node_pool_size>>

vars == <<parvars, aux>>

Backends == {"mpi", "zmq"}

\* range(1, self._mpi_size): the ranks of the processing nodes
Workers == 1..(PoolSize - 1)

Ranks == 0..(PoolSize - 1)

--------------------------------------------------------------------------
\* Payloads.  A dictionary is modelled by the set of its keys.

\* end_dict = {"end": True}
end_dict == {"end"}

\* ({"stopped": True}, rank)
stopped_dict == {"stopped"}

\* {"stop": True}
stop_dict == {"stop"}

\* The feedback dictionaries the processing layer's collect_data may return
\* as values: one for the entry of key 0, one for the entry of a rank.
FbAll == {"x"}
FbOne == {"y"}

\* (payload, rank) as sent to the collecting node.  ev names the event the
\* payload was computed from (0: none) and rec the record that was handed
\* to process_data.
Envelope(keys, rank, ev, rec) == [keys |-> keys, rank |-> rank, ev |-> ev, rec |-> rec]

\* extract_data(event): the keys of the extracted data
ExtractData(ev) == {"timestamp"}

\* process_data(data): processed_data["timestamp"] = data["timestamp"]; a
\* processing layer of kind "keyed" also returns an entry of key "end"
ProcessData(data) ==
    IF layer = "keyed" THEN (data \cap {"timestamp"}) \cup {"end"}
    ELSE data \cap {"timestamp"}

\* "end" in received_data[0]
IsEnd(msg) == "end" \in msg.keys

Append1(q, w, m) == [q EXCEPT ![w] = Append(@, m)]

--------------------------------------------------------------------------
\* ZMQ topics, as strings of characters.

Digit(d) == <<"0", "1", "2", "3", "4", "5", "6", "7", "8", "9">>[d + 1]

\* str(n) for n >= 0
RECURSIVE DecStr(_)
DecStr(n) == IF n < 10 THEN <<Digit(n)>> ELSE DecStr(n \div 10) \o <<Digit(n % 10)>>

\* The topic of a rank without the closing "#".
RankTopicBare(r) == DecStr(r)

\* f"{receiving_rank}#"
RankTopic(r) == DecStr(r) \o <<"#">>

\* "all#"
AllTopic == <<"a", "l", "l", "#">>

IsPrefix(p, s) == Len(p) <= Len(s) /\ SubSeq(s, 1, Len(p)) = p

\* socket_sub.setsockopt_string(zmq.SUBSCRIBE, ...)
Subscriptions(w) == {RankTopic(w), AllTopic}

\* a SUB socket receives a message iff one of its subscriptions is a prefix of the topic
Subscribed(w, topic) == \E p \in Subscriptions(w) : IsPrefix(p, topic)

\* self._socket_pub.send_string(topic, SNDMORE); self._socket_pub.send_pyobj(payload)
Publish(q, topic, payload) ==
    [w \in Workers |-> IF Subscribed(w, topic) THEN Append(q[w], payload) ELSE q[w]]

--------------------------------------------------------------------------
\* Feedback dispatch on the collecting node.

\* The processing layers: what collect_data returns for every envelope.
\*   "none":   None (the XES monitor)
\*   "all":    {0: ...} (the testing monitor)
\*   "both":   {0: ..., rank: ...}, rank the envelope's origin
Layers == {"none", "all", "both"}

\* "keyed": a layer whose process_data returns a dictionary that has a key
\* "end" among its keys, and whose collect_data returns None
AllLayers == Layers \cup {"keyed"}

\* collect_data(processed_data=(payload, rank)): the keys of the returned
\* dictionary in iteration order, <<>> for None
CollectDataReturn(msg) ==
    CASE layer = "none" -> <<>>
      [] layer = "all" -> <<0>>
      [] layer = "both" -> <<0, msg.rank>>
      [] layer = "keyed" -> <<>>

FbPayload(key) == IF key = 0 THEN FbAll ELSE FbOne

\* MpiSendAll over range(1, self._mpi_size - 1): the last rank is left out.
RECURSIVE MpiSendAllShort(_, _, _)
MpiSendAllShort(q, target_rank, payload) ==
    IF target_rank > PoolSize - 2 THEN q
    ELSE MpiSendAllShort(Append1(q, target_rank, payload), target_rank + 1, payload)

\* for target_rank in range(1, self._mpi_size): isend(feedback_data[0], dest=target_rank)
RECURSIVE MpiSendAll(_, _, _)
MpiSendAll(q, target_rank, payload) ==
    IF target_rank > PoolSize - 1 THEN q
    ELSE MpiSendAll(Append1(q, target_rank, payload), target_rank + 1, payload)

\* one entry of feedback_data
DispatchEntry(q, receiving_rank) ==
    IF backend = "mpi"
    THEN IF receiving_rank = 0
         THEN MpiSendAll(q, 1, FbPayload(0))
         ELSE Append1(q, receiving_rank, FbPayload(receiving_rank))
    ELSE IF receiving_rank = 0
         THEN Publish(q, AllTopic, FbPayload(0))
         ELSE Publish(q, RankTopic(receiving_rank), FbPayload(receiving_rank))

\* for receiving_rank in feedback_data.keys(): ...
RECURSIVE Dispatch(_, _)
Dispatch(q, feedback_data) ==
    IF feedback_data = <<>> THEN q
    ELSE Dispatch(DispatchEntry(q, Head(feedback_data)), Tail(feedback_data))

\* the isend calls of the dispatch of feedback_data, in order
RECURSIVE FeedbackSends(_)
FeedbackSends(feedback_data) ==
    IF feedback_data = <<>> THEN <<>>
    ELSE (IF Head(feedback_data) = 0
          THEN [target_rank \in Workers |-> [dest |-> target_rank, payload |-> FbPayload(0)]]
          ELSE <<[dest |-> Head(feedback_data), payload |-> FbPayload(Head(feedback_data))]>>)
         \o FeedbackSends(Tail(feedback_data))

--------------------------------------------------------------------------
\* Processing nodes.

RECURSIVE SumTo(_, _)
SumTo(f, n) == IF n = 0 THEN 0 ELSE f[n] + SumTo(f, n - 1)

\* events yielded so far by all the event generators
TotalYielded == SumTo(yielded, PoolSize - 1)

\* final payloads returned so far by end_processing_on_processing_node
TotalFinal ==
    SumTo([w \in Workers |->
             Cardinality({i \in 1..Len(sent[w]) : "final" \in sent[w][i].keys})],
          PoolSize - 1)

\* the send of one envelope to rank 0 (isend + Wait / send_pyobj)
SendData(w, envs) ==
    /\ dataq' = [dataq EXCEPT ![w] = @ \o envs]
    /\ sent' = [sent EXCEPT ![w] = @ \o envs]

\* The next send issued without waiting for the last one.
SendNoWait(w) == TRUE

\* if req: req.Wait() on the last data send of rank w
SendComplete(w) == sendmode = "eager" \/ dataq[w] = <<>>

\* mpi: Iprobe(source=0, tag=MpiTags.die); zmq: "stop" in message
DieObserved(w) ==
    IF backend = "mpi" THEN die[w]
    ELSE fbq[w] # <<>> /\ "stop" \in Head(fbq[w])

\* NodeShutdown reached after the record of the iteration was processed
\* and sent.
NodeShutdownAfterRecord(w) ==
    /\ wpc' = [wpc EXCEPT ![w] = "died"]
    /\ IF backend = "mpi"
       THEN /\ dead' = [dead EXCEPT ![w] = @ + 1]
            /\ SendData(w, <<Envelope(ProcessData(ExtractData(yielded[w] + 1)), w,
                                      yielded[w] + 1, ExtractData(yielded[w] + 1))>>)
            /\ UNCHANGED fbq
       ELSE /\ fbq' = [fbq EXCEPT ![w] = Tail(@)]
            /\ SendData(w, <<Envelope(ProcessData(ExtractData(yielded[w] + 1)), w,
                                      yielded[w] + 1, ExtractData(yielded[w] + 1)),
                             Envelope(stopped_dict, w, 0, {})>>)
            /\ UNCHANGED dead
    /\ UNCHANGED <<failed, owed>>

\* NodeShutdown leaving the event loop with "break": the code after the loop
\* runs and sends the end message.
NodeShutdownBreak(w) ==
    /\ wpc' = [wpc EXCEPT ![w] = "died"]
    /\ IF backend = "mpi"
       THEN /\ dead' = [dead EXCEPT ![w] = @ + 1]
            /\ SendData(w, <<Envelope(end_dict, w, 0, {})>>)
            /\ UNCHANGED fbq
       ELSE /\ fbq' = [fbq EXCEPT ![w] = Tail(@)]
            /\ SendData(w, <<Envelope(stopped_dict, w, 0, {}),
                             Envelope(end_dict, w, 0, {})>>)
            /\ UNCHANGED dead
    /\ UNCHANGED <<failed, owed>>

\* mpi: shutdown() on a processing node; zmq: send ({"stopped": True}, rank), return
NodeShutdown(w) ==
    /\ wpc' = [wpc EXCEPT ![w] = "died"]
    /\ IF backend = "mpi"
       THEN /\ dead' = [dead EXCEPT ![w] = @ + 1]
            /\ UNCHANGED <<fbq, dataq, sent>>
       ELSE /\ fbq' = [fbq EXCEPT ![w] = Tail(@)]
            /\ SendData(w, <<Envelope(stopped_dict, w, 0, {})>>)
            /\ UNCHANGED dead
    /\ UNCHANGED <<failed, owed>>

\* the feedback probe and receive: the dictionary received, {} when none is pending
FeedbackDict(w) == IF fbq[w] # <<>> THEN Head(fbq[w]) ELSE {}

\* AfterFeedbackRecv receiving in a loop until nothing is pending.
AfterFeedbackRecvAll(w) == [fbq EXCEPT ![w] = <<>>]

\* the feedback queue after the probe and receive
AfterFeedbackRecv(w) == IF fbq[w] # <<>> THEN [fbq EXCEPT ![w] = Tail(@)] ELSE fbq

\* SkipEvent without the "continue": the iteration goes on and sends an
\* envelope for the event whose extraction failed.
SkipEventNoContinue(w, ev) ==
    /\ failed' = [failed EXCEPT ![w] = @ \cup {ev}]
    /\ SendData(w, <<Envelope(ProcessData(ExtractData(ev)), w, ev,
                              ExtractData(ev) \cup FeedbackDict(w))>>)
    /\ UNCHANGED <<wpc, dead, owed>>

\* except OmDataExtractionError: ... continue
SkipEvent(w, ev) ==
    /\ failed' = [failed EXCEPT ![w] = @ \cup {ev}]
    /\ UNCHANGED <<wpc, dataq, sent, dead, owed>>

\* data.update(feedback_dict); process_data(data); send to rank 0
ProcessEvent(w, ev) ==
    LET data == ExtractData(ev) \cup FeedbackDict(w)
    IN /\ SendData(w, <<Envelope(ProcessData(data), w, ev, data)>>)
       /\ owed' = [owed EXCEPT ![w] = FALSE]
       /\ UNCHANGED <<wpc, dead, failed>>

\* ProcessingIteration receiving the feedback without the probe: the
\* iteration waits in recv until a feedback message is there.
ProcessingIterationBlockingRecv(w) ==
    /\ wpc[w] = "producing"
    /\ SendComplete(w)
    /\ TotalYielded + TotalFinal < max_events
    /\ yielded' = [yielded EXCEPT ![w] = @ + 1]
    /\ IF DieObserved(w)
       THEN NodeShutdown(w)
       ELSE /\ fbq[w] # <<>>
            /\ fbq' = AfterFeedbackRecv(w)
            /\ \E succeeds \in BOOLEAN :
                 IF succeeds THEN ProcessEvent(w, yielded[w] + 1)
                 ELSE SkipEvent(w, yielded[w] + 1)
    /\ UNCHANGED <<aux, max_idle, monitor, sendmode, todo, backend, layer, max_events, cpc,
                   num_no_more, num_collected_events, num_shutdown_confirm, die,
                   end_calls, collected, ends_received>>

\* One iteration of "for event in events" on rank w.  succeeds says whether
\* extract_data returns or raises OmDataExtractionError.
ProcessingIteration(w) ==
    /\ wpc[w] = "producing"
    /\ SendComplete(w)
    /\ TotalYielded + TotalFinal < max_events
    /\ yielded' = [yielded EXCEPT ![w] = @ + 1]
    /\ IF DieObserved(w)
       THEN NodeShutdown(w)
       ELSE /\ fbq' = AfterFeedbackRecv(w)
            /\ \E succeeds \in BOOLEAN :
                 IF succeeds THEN ProcessEvent(w, yielded[w] + 1)
                 ELSE SkipEvent(w, yielded[w] + 1)
    /\ UNCHANGED <<aux, max_idle, monitor, sendmode, todo, backend, layer, max_events, cpc, num_no_more, num_collected_events,
                   num_shutdown_confirm, die, end_calls, collected,
                   ends_received>>

\* EndOfEvents without the end message: the node returns after the final data.
EndOfEventsNoEnd(w) ==
    /\ wpc[w] = "producing"
    /\ end_calls' = [end_calls EXCEPT ![w] = @ + 1]
    /\ \E final_data \in {{}, {"final"}} :
         /\ final_data # {} => TotalYielded + TotalFinal < max_events
         /\ SendData(w, IF final_data # {}
                        THEN <<Envelope(final_data, w, 0, {})>> ELSE <<>>)
    /\ wpc' = [wpc EXCEPT ![w] = "terminated"]
    /\ UNCHANGED <<aux, max_idle, monitor, sendmode, todo, backend, layer, max_events, cpc, num_no_more, num_collected_events,
                   num_shutdown_confirm, fbq, die, dead, yielded, failed,
                   ends_received, collected, owed>>

\* The code after the loop, run when the event generator is exhausted:
\* EndOfEvents sending the end message ahead of the final data.
EndBeforeFinal(w) ==
    /\ wpc[w] = "producing"
    /\ SendComplete(w)
    /\ end_calls' = [end_calls EXCEPT ![w] = @ + 1]
    /\ \E final_data \in {{}, {"final"}} :
         /\ final_data # {} => TotalYielded + TotalFinal < max_events
         /\ SendData(w, <<Envelope(end_dict, w, 0, {})>>
                        \o (IF final_data # {}
                            THEN <<Envelope(final_data, w, 0, {})>> ELSE <<>>))
    /\ wpc' = [wpc EXCEPT ![w] = "terminated"]
    /\ UNCHANGED <<aux, max_idle, monitor, sendmode, todo, backend, layer, max_events, cpc,
                   num_no_more, num_collected_events, num_shutdown_confirm, fbq, die,
                   dead, yielded, failed, ends_received, collected, owed>>

\* end_processing_on_processing_node, the optional final data, the end message.
\* With rendezvous sends the end message is sent only when the final data
\* has been received (EndMessage).
EndOfEvents(w) ==
    /\ wpc[w] = "producing"
    /\ SendComplete(w)
    /\ end_calls' = [end_calls EXCEPT ![w] = @ + 1]
    /\ \E final_data \in {{}, {"final"}} :
         /\ final_data # {} => TotalYielded + TotalFinal < max_events
         /\ IF final_data # {} /\ sendmode = "rendezvous"
            THEN /\ SendData(w, <<Envelope(final_data, w, 0, {})>>)
                 /\ wpc' = [wpc EXCEPT ![w] = "finishing"]
            ELSE /\ SendData(w, (IF final_data # {}
                                 THEN <<Envelope(final_data, w, 0, {})>> ELSE <<>>)
                                \o <<Envelope(end_dict, w, 0, {})>>)
                 /\ wpc' = [wpc EXCEPT ![w] = "terminated"]
    /\ UNCHANGED <<aux, max_idle, monitor, sendmode, todo, backend, layer, max_events, cpc, num_no_more, num_collected_events,
                   num_shutdown_confirm, fbq, die, dead, yielded, failed,
                   ends_received, collected, owed>>

\* if req: req.Wait(); req = isend((end_dict, self._rank), dest=0, tag=data)
\* after the final data, with rendezvous sends
EndMessage(w) ==
    /\ wpc[w] = "finishing"
    /\ SendComplete(w)
    /\ SendData(w, <<Envelope(end_dict, w, 0, {})>>)
    /\ wpc' = [wpc EXCEPT ![w] = "terminated"]
    /\ UNCHANGED <<aux, max_idle, monitor, sendmode, todo, backend, layer, max_events, cpc, num_no_more,
                   num_collected_events, num_shutdown_confirm, fbq, die, dead, yielded,
                   failed, ends_received, end_calls, collected, owed>>

\* Crash running the code that follows the loop: the end message is sent.
CrashSendsEnd(w) ==
    /\ wpc[w] = "producing"
    /\ wpc' = [wpc EXCEPT ![w] = "crashed"]
    /\ SendData(w, <<Envelope(end_dict, w, 0, {})>>)
    /\ UNCHANGED <<aux, max_idle, monitor, sendmode, todo, backend, layer, max_events, cpc, num_no_more,
                   num_collected_events, num_shutdown_confirm, fbq, die, dead, yielded,
                   failed, ends_received, end_calls, collected, owed>>

\* An exception other than OmDataExtractionError ends the process.
Crash(w) ==
    /\ wpc[w] = "producing"
    /\ wpc' = [wpc EXCEPT ![w] = "crashed"]
    /\ UNCHANGED <<aux, max_idle, monitor, sendmode, todo, backend, layer, max_events, cpc, num_no_more, num_collected_events,
                   num_shutdown_confirm, dataq, fbq, die, dead, yielded, failed,
                   ends_received, sent, end_calls, collected, owed>>

--------------------------------------------------------------------------
\* Collecting node.

Pending == {w \in Workers : dataq[w] # <<>>}

\* HandleEnd with the pool size taken for the number of processing nodes.
HandleEndOffByOne(msg) ==
    /\ num_no_more' = num_no_more + 1
    /\ IF num_no_more + 1 = PoolSize
       THEN /\ end_calls' = [end_calls EXCEPT ![0] = @ + 1]
            /\ cpc' = "done"
       ELSE UNCHANGED <<end_calls, cpc>>
    /\ UNCHANGED <<num_collected_events, collected, fbq, todo, monitor>>

\* HandleEnd without the "continue": an end message that is not the last
\* falls through to collect_data.
HandleEndFallThrough(msg) ==
    /\ num_no_more' = num_no_more + 1
    /\ IF num_no_more + 1 = PoolSize - 1
       THEN /\ end_calls' = [end_calls EXCEPT ![0] = @ + 1]
            /\ cpc' = "done"
            /\ UNCHANGED <<num_collected_events, collected>>
       ELSE /\ collected' = [collected EXCEPT ![msg.rank] = Append(@, msg)]
            /\ num_collected_events' = num_collected_events + 1
            /\ UNCHANGED <<end_calls, cpc>>
    /\ UNCHANGED <<fbq, todo, monitor>>

\* HandleEnd counting an end message twice.
HandleEndCountsTwice(msg) ==
    /\ num_no_more' = num_no_more + 2
    /\ IF num_no_more + 2 >= PoolSize - 1
       THEN /\ end_calls' = [end_calls EXCEPT ![0] = @ + 1]
            /\ cpc' = "done"
       ELSE UNCHANGED <<end_calls, cpc>>
    /\ UNCHANGED <<num_collected_events, collected, fbq, todo, monitor>>

\* if "end" in received_data[0]: self._num_no_more += 1; on the last one
\* end_processing_on_collecting_node and exit, else continue
HandleEnd(msg) ==
    /\ num_no_more' = num_no_more + 1
    /\ IF num_no_more + 1 = PoolSize - 1
       THEN /\ end_calls' = [end_calls EXCEPT ![0] = @ + 1]
            /\ cpc' = "done"
       ELSE UNCHANGED <<end_calls, cpc>>
    /\ UNCHANGED <<num_collected_events, collected, fbq, todo, monitor>>

\* CollectCount starting the count from the rank of the first envelope.
CollectCountFromRank(n, msg) == IF n = 0 THEN msg.rank ELSE n + 1

\* TestProcessing.collect_data: self._num_events += 1
CollectCount(n, msg) == n + 1

\* wait_for_data(node_rank, node_pool_size)
WaitForData == idle_calls' = IF idle_calls < max_idle THEN idle_calls + 1 ELSE idle_calls

\* HandleData going on to the idle branch after the envelope.
HandleDataThenWait(msg, feedback_data) ==
    /\ collected' = [collected EXCEPT ![msg.rank] = Append(@, msg)]
    /\ num_collected_events' = num_collected_events + 1
    /\ IF sendmode = "eager"
       THEN fbq' = Dispatch(fbq, feedback_data) /\ UNCHANGED todo
       ELSE todo' = FeedbackSends(feedback_data) /\ UNCHANGED fbq
    /\ monitor_num_events' = CollectCount(monitor_num_events, msg)
    /\ WaitForData
    /\ UNCHANGED <<num_no_more, end_calls, cpc>>

\* collect_data(processed_data=received_data); self._num_collected_events += 1;
\* the dispatch of the feedback it returned
\* With rendezvous sends every isend waits for the one before (FeedbackSend).
HandleData(msg, feedback_data) ==
    /\ collected' = [collected EXCEPT ![msg.rank] = Append(@, msg)]
    /\ num_collected_events' = num_collected_events + 1
    /\ IF sendmode = "eager"
       THEN fbq' = Dispatch(fbq, feedback_data) /\ UNCHANGED todo
       ELSE todo' = FeedbackSends(feedback_data) /\ UNCHANGED fbq
    /\ monitor_num_events' = CollectCount(monitor_num_events, msg)
    /\ UNCHANGED idle_calls
    /\ UNCHANGED <<num_no_more, end_calls, cpc>>

\* One iteration of the "while True" of start() on rank 0.
CollectingIteration ==
    /\ cpc = "collecting"
    /\ todo = <<>>
    /\ IF Pending # {}
       THEN \E w \in Pending :
              /\ dataq' = [dataq EXCEPT ![w] = Tail(@)]
              /\ IF IsEnd(Head(dataq[w]))
                 THEN HandleEnd(Head(dataq[w]))
                 ELSE HandleData(Head(dataq[w]), CollectDataReturn(Head(dataq[w])))
              /\ ends_received' =
                   [ends_received EXCEPT ![w] =
                      IF Head(dataq[w]).keys = end_dict THEN @ + 1 ELSE @]
              /\ owed' = [v \in Workers |->
                            owed[v] \/ \E i \in (Len(fbq[v]) + 1)..Len(fbq'[v]) :
                                          fbq'[v][i] = FbAll]
       ELSE \* wait_for_data
            /\ WaitForData
            /\ UNCHANGED <<dataq, num_no_more, end_calls, cpc, num_collected_events,
                        collected, fbq, todo, owed, ends_received, monitor_num_events>>
    /\ UNCHANGED <<aux, max_idle, sendmode, backend, layer, max_events, num_shutdown_confirm, wpc, die, dead, yielded,
                   failed, sent>>

\* if req: req.Wait(); req = isend(..., tag=MpiTags.feedback), with rendezvous
\* sends: the request of the last feedback send completes when its
\* destination has received the message.  As every send waits for the one
\* before, that message is the only feedback message not yet received.
FeedbackSend ==
    /\ cpc = "collecting"
    /\ todo # <<>>
    /\ \A w \in Workers : fbq[w] = <<>>
    /\ fbq' = Append1(fbq, Head(todo).dest, Head(todo).payload)
    /\ todo' = Tail(todo)
    /\ owed' = [owed EXCEPT ![Head(todo).dest] = @ \/ Head(todo).payload = FbAll]
    /\ UNCHANGED <<aux, max_idle, monitor, sendmode, backend, layer, max_events, cpc, num_no_more,
                   num_collected_events, num_shutdown_confirm, wpc, dataq, die, dead,
                   yielded, failed, ends_received, sent, end_calls, collected>>

\* Interrupt calling end_processing_on_collecting_node before shutdown().
InterruptCallsEnd ==
    /\ cpc = "collecting"
    /\ cpc' = "shutting_down"
    /\ num_shutdown_confirm' = 0
    /\ todo' = <<>>
    /\ end_calls' = [end_calls EXCEPT ![0] = @ + 1]
    /\ IF backend = "mpi"
       THEN /\ die' = [w \in Workers |-> TRUE]
            /\ UNCHANGED fbq
       ELSE /\ fbq' = Publish(fbq, AllTopic, stop_dict)
            /\ UNCHANGED die
    /\ UNCHANGED <<aux, max_idle, monitor, sendmode, backend, layer, max_events, num_no_more,
                   num_collected_events, wpc, dataq, dead, yielded, failed,
                   ends_received, sent, collected, owed>>

\* KeyboardInterrupt in the collecting loop: shutdown() up to its loop.
\* mpi: isend(0, dest=node_num, tag=MpiTags.die) to every processing node;
\* zmq: publish {"stop": True} with the topic "all#".
Interrupt ==
    /\ cpc = "collecting"
    /\ cpc' = "shutting_down"
    /\ num_shutdown_confirm' = 0
    /\ todo' = <<>>
    /\ IF backend = "mpi"
       THEN /\ die' = [w \in Workers |-> TRUE]
            /\ UNCHANGED fbq
       ELSE /\ fbq' = Publish(fbq, AllTopic, stop_dict)
            /\ UNCHANGED die
    /\ UNCHANGED <<aux, max_idle, monitor, sendmode, backend, layer, max_events, num_no_more, num_collected_events, wpc, dataq, dead,
                   yielded, failed, ends_received, sent, end_calls, collected, owed>>

\* if num_shutdown_confirm == self._mpi_size - 1: break
ConfirmOrExit(confirm) ==
    /\ num_shutdown_confirm' = confirm
    /\ cpc' = IF confirm = PoolSize - 1 THEN "stopped" ELSE "shutting_down"

\* The "while True" of shutdown() on rank 0, MPI, up to the second probe:
\* if Iprobe(tag=data): recv(tag=data)
MpiShutdownRecv ==
    /\ IF Pending # {}
       THEN \E w \in Pending : dataq' = [dataq EXCEPT ![w] = Tail(@)]
       ELSE UNCHANGED dataq
    /\ cpc' = "confirming"
    /\ UNCHANGED num_shutdown_confirm

\* One iteration of the "while True" of shutdown() on rank 0, ZMQ:
\* message = recv_pyobj() (blocking); if "stopped" in message[0]: confirm += 1
ZmqShutdownIteration ==
    \E w \in Pending :
       /\ dataq' = [dataq EXCEPT ![w] = Tail(@)]
       /\ ConfirmOrExit(IF "stopped" \in Head(dataq[w]).keys
                        THEN num_shutdown_confirm + 1
                        ELSE num_shutdown_confirm)

\* ShutdownIteration counting what it receives as a collected event.
ShutdownIterationCollects ==
    /\ cpc = "shutting_down"
    /\ IF backend = "mpi" THEN MpiShutdownRecv ELSE ZmqShutdownIteration
    /\ num_collected_events' = IF Pending # {} THEN num_collected_events + 1
                               ELSE num_collected_events
    /\ UNCHANGED <<aux, max_idle, monitor, sendmode, todo, backend, layer, max_events,
                   num_no_more, wpc, fbq, die, dead, yielded, failed, ends_received,
                   sent, end_calls, collected, owed>>

ShutdownIteration ==
    /\ cpc = "shutting_down"
    /\ IF backend = "mpi" THEN MpiShutdownRecv ELSE ZmqShutdownIteration
    /\ UNCHANGED <<aux, max_idle, monitor, sendmode, todo, backend, layer, max_events, num_no_more,
                   num_collected_events, wpc, fbq, die, dead, yielded, failed,
                   ends_received, sent, end_calls, collected, owed>>

\* The rest of the iteration of shutdown() on rank 0, MPI:
\* if Iprobe(tag=data): num_shutdown_confirm += 1; the exit test
MpiShutdownConfirm ==
    /\ cpc = "confirming"
    /\ ConfirmOrExit(IF Pending # {} THEN num_shutdown_confirm + 1
                     ELSE num_shutdown_confirm)
    /\ UNCHANGED <<aux, max_idle, monitor, sendmode, todo, backend, layer, max_events, num_no_more,
                   num_collected_events, wpc, dataq, fbq, die, dead, yielded, failed,
                   ends_received, sent, end_calls, collected, owed>>

--------------------------------------------------------------------------

\* The other components, at rest while the Parallelization Layer runs.
ShardIdle ==
    /\ filelist = <<>>
    /\ initialized = {}
    /\ files_curr_node = <<>>

\* the counters of a new EventCounter
CounterZero ==
    /\ num_events = 0
    /\ num_hits = 0
    /\ ranks_for_frame_request = 0
    /\ hit_calls = 0
    /\ non_hit_calls = 0
    /\ requested = <<>>
    /\ report_calls = 0
    /\ num_reports = 0
    /\ raised = FALSE

CounterIdle ==
    /\ speed_report_interval = <<>>
    /\ data_broadcast_interval = <<>>
    /\ hit_frame_sending_interval = <<>>
    /\ non_hit_frame_sending_interval = <<>>
    /\ CounterZero

StartIdle ==
    /\ engine_backend = "mpi"
    /\ engine = "collecting"
    /\ processing_nodes = 0
    /\ nodes_started = 0

TopicIdle ==
    /\ sub_rank = 1
    /\ topic_rank = 0
    /\ delivered = "pending"

CollectIdle ==
    /\ collect_calls = 0
    /\ broadcasts = <<>>

\* no query operation called yet
NoReturn == [op |-> "None", flag |-> "None", number |-> -1]

QueryIdle ==
    /\ query_calls = 0
    /\ returned = NoReturn

AuxIdle ==
    /\ ShardIdle /\ CounterIdle /\ StartIdle /\ TopicIdle /\ CollectIdle /\ QueryIdle
    /\ node_pool_size = PoolSize

\* The Parallelization Layer when start() is entered on every node.
ParInit(events, mode, idle) ==
    /\ max_events = events
    /\ max_idle = idle
    /\ monitor_num_events = 0
    /\ idle_calls = 0
    /\ sendmode = mode
    /\ backend \in Backends
    /\ layer \in AllLayers
    /\ cpc = "collecting"
    /\ num_no_more = 0
    /\ num_collected_events = 0
    /\ num_shutdown_confirm = 0
    /\ todo = <<>>
    /\ wpc = [w \in Workers |-> "producing"]
    /\ dataq = [w \in Workers |-> <<>>]
    /\ fbq = [w \in Workers |-> <<>>]
    /\ die = [w \in Workers |-> FALSE]
    /\ dead = [w \in Workers |-> 0]
    /\ yielded = [w \in Workers |-> 0]
    /\ failed = [w \in Workers |-> {}]
    /\ ends_received = [w \in Workers |-> 0]
    /\ sent = [w \in Workers |-> <<>>]
    /\ end_calls = [r \in Ranks |-> 0]
    /\ collected = [w \in Workers |-> <<>>]
    /\ owed = [w \in Workers |-> FALSE]

InitWith(events) == ParInit(events, "eager", 0) /\ layer \in Layers /\ AuxIdle

Init == InitWith(MaxEvents)

Next ==
    \/ CollectingIteration
    \/ Interrupt
    \/ ShutdownIteration
    \/ MpiShutdownConfirm
    \/ \E w \in Workers : ProcessingIteration(w)
    \/ \E w \in Workers : EndOfEvents(w)
    \/ \E w \in Workers : Crash(w)

Spec == Init /\ [][Next]_vars

--------------------------------------------------------------------------
\* Properties.

Last(q) == q[Len(q)]

\* end messages the collecting loop has received
TotalEndsReceived == SumTo(ends_received, PoolSize - 1)

\* end messages rank w has sent
EndsSent(w) == Cardinality({i \in 1..Len(sent[w]) : sent[w][i].keys = end_dict})

\* the envelopes of q that are neither end messages nor shutdown confirmations
NonTerminal(q) == SelectSeq(q, LAMBDA e : e.keys # end_dict /\ e.keys # stopped_dict)

Interrupted == cpc \in {"shutting_down", "confirming", "stopped"}

\* C1: the collecting node has left its collecting loop on the normal path
\* (end_processing_on_collecting_node called, process exited) if and only if
\* the loop has received exactly PoolSize-1 end messages; with fewer received
\* and no interrupt it is still in the collecting loop.
C1_NormalExitIffAllEnded ==
    /\ (cpc = "done") <=> (TotalEndsReceived = PoolSize - 1)
    /\ (cpc = "done") <=> (end_calls[0] = 1)
    /\ TotalEndsReceived <= PoolSize - 1
    /\ (TotalEndsReceived < PoolSize - 1 /\ ~Interrupted) => cpc = "collecting"

\* Reached: a normal exit after data envelopes and the end messages of all ranks.
C1_Witness ==
    /\ cpc = "done"
    /\ num_collected_events >= 1
    /\ \A w \in Workers : ends_received[w] = 1

\* C2: a rank sends its end message at most once, and only from the code that
\* follows the exhausted event loop (as the last thing it sends); a rank that
\* stopped on a die message, or crashed, has sent none.
C2_EndOnceAfterExhaustion ==
    \A w \in Workers :
       /\ EndsSent(w) <= 1
       /\ EndsSent(w) = 1 =>
            /\ wpc[w] = "terminated"
            /\ end_calls[w] = 1
            /\ Last(sent[w]).keys = end_dict
       /\ wpc[w] = "producing" => EndsSent(w) = 0
       /\ wpc[w] \in {"died", "crashed"} => EndsSent(w) = 0

\* Reached: one rank stopped on a die message after sending data, another
\* ended normally.
C2_Witness ==
    \E w, v \in Workers :
       /\ wpc[w] = "died" /\ NonTerminal(sent[w]) # <<>>
       /\ wpc[v] = "terminated" /\ EndsSent(v) = 1

\* C3: when the collecting node has finished on the normal path (and no rank
\* crashed), the envelopes passed to collect_data from each rank are exactly
\* the non-terminal envelopes that rank sent, each once and in order; the
\* collected-event count is their total number; no end message was collected.
C3_AllCollectedOnce ==
    (cpc = "done" /\ \A w \in Workers : wpc[w] # "crashed") =>
       /\ \A w \in Workers : collected[w] = NonTerminal(sent[w])
       /\ num_collected_events =
            SumTo([w \in Workers |-> Len(NonTerminal(sent[w]))], PoolSize - 1)
       /\ \A w \in Workers : \A i \in 1..Len(collected[w]) : ~IsEnd(collected[w][i])

\* Reached: a normal exit where every rank had sent a data envelope.
C3_Witness ==
    /\ cpc = "done"
    /\ \A w \in Workers : Len(NonTerminal(sent[w])) >= 1

--------------------------------------------------------------------------
\* Runs without crash and without interrupt, with the scheduling of the
\* processes: each process keeps running its loop, and every event generator
\* yields its next event or is exhausted (the streams are finite: the events
\* are bounded by MaxEvents).

NextRun ==
    \/ CollectingIteration
    \/ \E w \in Workers : ProcessingIteration(w)
    \/ \E w \in Workers : EndOfEvents(w)

FairSpec ==
    /\ Init
    /\ [][NextRun]_vars
    /\ WF_vars(CollectingIteration)
    /\ \A w \in Workers : WF_vars(ProcessingIteration(w) \/ EndOfEvents(w))

\* The same runs with one more event.
LongRunSpec == InitWith(MaxEvents + 1) /\ [][NextRun]_vars

\* Runs without crash and without interrupt in which the calls of
\* wait_for_data are counted, up to MaxIdle.
IdleInit == ParInit(MaxEvents, "eager", MaxIdle) /\ layer \in Layers /\ AuxIdle

IdleSpec == IdleInit /\ [][NextRun]_vars

\* Runs without crash and without interrupt of a processing layer of kind
\* "keyed".
KeyedInit == ParInit(MaxEvents + 1, "eager", 0) /\ layer = "keyed" /\ AuxIdle

KeyedSpec == KeyedInit /\ [][NextRun]_vars

\* C4: with finite event streams, no crash, no interrupt and buffered sends,
\* the collecting node eventually has received PoolSize-1 end messages, has
\* called end_processing_on_collecting_node and has exited, and every
\* processing node has terminated.
C4_RunTerminates ==
    <>(/\ cpc = "done"
       /\ TotalEndsReceived = PoolSize - 1
       /\ end_calls[0] = 1
       /\ \A w \in Workers : wpc[w] = "terminated")

\* Reached: the final state of a run in which events were processed and skipped.
C4_Witness ==
    /\ cpc = "done"
    /\ \A w \in Workers : wpc[w] = "terminated"
    /\ \E w \in Workers : failed[w] # {}
    /\ num_collected_events >= 1

--------------------------------------------------------------------------

\* the envelopes of q computed from an event (not final data, end or stopped)
DataEnvelopes(q) == SelectSeq(q, LAMBDA e : e.ev > 0)

HasFinal(q) == \E i \in 1..Len(q) : "final" \in q[i].keys

\* C5 (state part): no envelope sent or collected comes from an event whose
\* extraction failed; a rank that ended after n events of which f failed, with
\* no final data, has sent n-f data envelopes, of the events that did not
\* fail, in order, followed by exactly one end message.
C5_Counts ==
    \A w \in Workers :
       /\ \A i \in 1..Len(sent[w]) : sent[w][i].ev \notin failed[w]
       /\ \A i \in 1..Len(collected[w]) : collected[w][i].ev \notin failed[w]
       /\ (wpc[w] = "terminated" /\ ~HasFinal(sent[w])) =>
            /\ Len(sent[w]) = yielded[w] - Cardinality(failed[w]) + 1
            /\ Last(sent[w]).keys = end_dict
            /\ \A i \in 1..(Len(sent[w]) - 1) :
                 /\ sent[w][i].keys = ProcessData(ExtractData(sent[w][i].ev))
                 /\ sent[w][i].ev \in (1..yielded[w]) \ failed[w]
                 /\ \A j \in 1..(i - 1) : sent[w][j].ev < sent[w][i].ev

\* C5: C5_Counts holds throughout, and the iteration in which an extraction
\* fails leaves the rank in its event loop and sends nothing.
C5_FailureIsSkipped ==
    /\ []C5_Counts
    /\ [][\A w \in Workers :
            failed'[w] # failed[w] =>
               /\ wpc'[w] = "producing"
               /\ sent'[w] = sent[w]
               /\ dataq'[w] = dataq[w]]_vars

\* Reached: a rank whose first event failed and whose second was processed
\* has ended.
C5_Witness ==
    \E w \in Workers :
       /\ wpc[w] = "terminated"
       /\ failed[w] = {1}
       /\ yielded[w] = 2
       /\ Len(sent[w]) = 2
       /\ sent[w][1].ev = 2

\* the feedback payloads rank w is to receive for the dictionary feedback_data
RECURSIVE ExpectedFor(_, _)
ExpectedFor(w, feedback_data) ==
    IF feedback_data = <<>> THEN <<>>
    ELSE (IF Head(feedback_data) = 0 THEN <<FbAll>>
          ELSE IF Head(feedback_data) = w THEN <<FbOne>>
          ELSE <<>>) \o ExpectedFor(w, Tail(feedback_data))

\* C6: in the iteration that collects an envelope, each entry of key 0 of the
\* returned dictionary is sent once to every processing node and each entry
\* of key r once to rank r, and to no other rank.
C6_FeedbackRouting ==
    [][(cpc = "collecting" /\ num_collected_events' = num_collected_events + 1) =>
         \E s \in Workers :
            /\ dataq[s] # <<>>
            /\ dataq'[s] = Tail(dataq[s])
            /\ \A w \in Workers :
                 fbq'[w] = fbq[w] \o ExpectedFor(w, CollectDataReturn(Head(dataq[s])))]_vars

\* Reached: a dictionary with both kinds of entry was dispatched.
C6_Witness ==
    /\ layer = "both"
    /\ \E w, v \in Workers :
         /\ fbq[w] = <<FbAll, FbOne>>
         /\ fbq[v] = <<FbAll>>

\* C7: an iteration that receives a feedback dictionary hands process_data a
\* record that holds the dictionary's keys (and sends the envelope).
C7_ConsumedFeedbackIsMerged ==
    [][\A w \in Workers :
         (/\ yielded'[w] = yielded[w] + 1
          /\ fbq[w] # <<>>
          /\ fbq'[w] = Tail(fbq[w])
          /\ "stop" \notin Head(fbq[w])) =>
            /\ Len(sent'[w]) = Len(sent[w]) + 1
            /\ Head(fbq[w]) \subseteq Last(sent'[w]).rec]_vars

\* C8: once an all-nodes feedback {x: ...} has arrived at a rank, the next
\* record the rank hands to process_data holds x.
C8_NextRecordHoldsFeedback ==
    [][\A w \in Workers :
         (/\ owed[w]
          /\ Len(sent'[w]) = Len(sent[w]) + 1
          /\ Last(sent'[w]).ev > 0) => "x" \in Last(sent'[w]).rec]_vars

\* C9: an iteration of the event loop receives at most one of the pending
\* feedback messages, the oldest, and leaves the others queued; with none
\* pending it goes on with an empty feedback dictionary.
C9_AtMostOneFeedbackPerIteration ==
    [][\A w \in Workers :
         yielded'[w] = yielded[w] + 1 =>
            /\ \/ fbq'[w] = fbq[w]
               \/ fbq[w] # <<>> /\ fbq'[w] = Tail(fbq[w])
            /\ (fbq[w] = <<>> /\ Len(sent'[w]) > Len(sent[w])) =>
                 Last(sent'[w]).rec = ExtractData(yielded'[w])]_vars

\* Reached: of two pending feedback messages the iteration took the first,
\* and the second is still queued.
C9_Witness ==
    \E w \in Workers :
       /\ yielded[w] = 2
       /\ num_collected_events = 1
       /\ Len(sent[w]) = 2
       /\ sent[w][2].rec = ExtractData(2) \cup FbAll
       /\ fbq[w] = <<FbOne>>

StoppedSent(w) == Cardinality({i \in 1..Len(sent[w]) : sent[w][i].keys = stopped_dict})

\* C10: a rank that observed the die message has not processed the record of
\* that iteration, has not called end_processing_on_processing_node, has sent
\* no end message and no final data, and has sent its confirmation once (tag
\* dead on MPI, a "stopped" envelope, its last, on ZMQ); no other rank sends
\* a confirmation.
C10_DieStopsAtOnce ==
    \A w \in Workers :
       /\ wpc[w] = "died" =>
            /\ end_calls[w] = 0
            /\ EndsSent(w) = 0
            /\ ~HasFinal(sent[w])
            /\ Len(DataEnvelopes(sent[w])) = yielded[w] - 1 - Cardinality(failed[w])
            /\ IF backend = "mpi"
               THEN dead[w] = 1 /\ StoppedSent(w) = 0
               ELSE /\ dead[w] = 0 /\ StoppedSent(w) = 1
                    /\ Last(sent[w]).keys = stopped_dict
       /\ wpc[w] # "died" => dead[w] = 0 /\ StoppedSent(w) = 0

\* Reached: a rank processed a record, then observed die in its next iteration.
C10_Witness ==
    \E w \in Workers :
       /\ wpc[w] = "died"
       /\ yielded[w] = 2
       /\ Len(DataEnvelopes(sent[w])) = 1

--------------------------------------------------------------------------
\* Shutdown on an interrupt.

\* the die message has been delivered to rank w: a message of tag die is
\* pending (MPI), the stop message is in the queue of the SUB socket (ZMQ)
DieDelivered(w) ==
    IF backend = "mpi" THEN die[w]
    ELSE \E i \in 1..Len(fbq[w]) : "stop" \in fbq[w][i]

\* C11: an iteration of the event loop that begins after the die message was
\* delivered to the rank ends the rank and processes no record, whatever
\* feedback messages are pending.
C11_DieWithinOneIteration ==
    [][\A w \in Workers :
         (DieDelivered(w) /\ yielded'[w] = yielded[w] + 1) =>
            /\ wpc'[w] = "died"
            /\ DataEnvelopes(sent'[w]) = DataEnvelopes(sent[w])]_vars

\* rank w has sent its confirmation of the shutdown
Confirmed(w) == IF backend = "mpi" THEN dead[w] >= 1 ELSE StoppedSent(w) >= 1

\* C12: the collecting node leaves shutdown() only when every processing
\* node has confirmed its shutdown.
C12_StopsOnlyWhenAllConfirmed ==
    cpc = "stopped" => \A w \in Workers : Confirmed(w)

\* Runs with an interrupt and without crash, with the scheduling of the
\* processes.
NextNoCrash ==
    \/ CollectingIteration
    \/ Interrupt
    \/ ShutdownIteration
    \/ MpiShutdownConfirm
    \/ \E w \in Workers : ProcessingIteration(w)
    \/ \E w \in Workers : EndOfEvents(w)

InterruptSpec ==
    /\ Init
    /\ [][NextNoCrash]_vars
    /\ WF_vars(CollectingIteration)
    /\ WF_vars(ShutdownIteration)
    /\ WF_vars(MpiShutdownConfirm)
    /\ \A w \in Workers : WF_vars(ProcessingIteration(w) \/ EndOfEvents(w))

\* C13: after an interrupt the collecting node eventually leaves shutdown().
C13_ShutdownCompletes == (cpc = "shutting_down") ~> (cpc = "stopped")

\* C14: when a rank has crashed (it had not sent its end message) and there
\* is no interrupt, the collecting node is in its collecting loop: it has not
\* counted PoolSize-1 end messages, has not called
\* end_processing_on_collecting_node and has not exited.
C14_CrashStallsCollector ==
    ((\E w \in Workers : wpc[w] = "crashed") /\ ~Interrupted) =>
       /\ cpc = "collecting"
       /\ num_no_more < PoolSize - 1
       /\ end_calls[0] = 0

\* Reached: one rank crashed, every other rank has ended and all that was
\* sent has been received, data envelopes included.
C14_Witness ==
    /\ cpc = "collecting"
    /\ \E w \in Workers :
         /\ wpc[w] = "crashed"
         /\ \A v \in Workers \ {w} : wpc[v] = "terminated" /\ ends_received[v] = 1
    /\ \A w \in Workers : dataq[w] = <<>>
    /\ num_collected_events >= 1

--------------------------------------------------------------------------
\* MPI runs with rendezvous sends: crash, no interrupt, with the scheduling
\* of the processes.

NextRendezvous ==
    \/ CollectingIteration
    \/ FeedbackSend
    \/ \E w \in Workers : ProcessingIteration(w)
    \/ \E w \in Workers : EndOfEvents(w)
    \/ \E w \in Workers : EndMessage(w)
    \/ \E w \in Workers : Crash(w)

RendezvousInit ==
    /\ ParInit(MaxEvents + 1, "rendezvous", 0)
    /\ backend = "mpi"
    /\ layer \in Layers
    /\ AuxIdle

RendezvousSpec ==
    /\ RendezvousInit
    /\ [][NextRendezvous]_vars
    /\ WF_vars(CollectingIteration)
    /\ WF_vars(FeedbackSend)
    /\ \A w \in Workers :
         WF_vars(ProcessingIteration(w) \/ EndOfEvents(w) \/ EndMessage(w))

\* MPI runs with rendezvous sends, without crash and without interrupt.
NextRendezvousRun ==
    \/ CollectingIteration
    \/ FeedbackSend
    \/ \E w \in Workers : ProcessingIteration(w)
    \/ \E w \in Workers : EndOfEvents(w)
    \/ \E w \in Workers : EndMessage(w)

RendezvousRunSpec ==
    /\ RendezvousInit
    /\ [][NextRendezvousRun]_vars
    /\ WF_vars(CollectingIteration)
    /\ WF_vars(FeedbackSend)
    /\ \A w \in Workers :
         WF_vars(ProcessingIteration(w) \/ EndOfEvents(w) \/ EndMessage(w))

\* C15: after a rank has crashed, every data envelope sent by a rank that
\* does not crash is eventually received by the collecting node.
C15_SurvivorsAreCollected ==
    \A w \in Workers :
       []((/\ \E v \in Workers : wpc[v] = "crashed"
           /\ wpc[w] # "crashed"
           /\ dataq[w] # <<>>
           /\ Head(dataq[w]).ev > 0) => <>(dataq[w] = <<>> \/ wpc[w] = "crashed"))

--------------------------------------------------------------------------
\* The Parallelization Layer at rest, for the specifications of the other
\* components.
ParIdle == ParInit(0, "eager", 0) /\ backend = "mpi" /\ layer = "none"

--------------------------------------------------------------------------
\* Static sharding of the file-based data event handlers
\* (initialize_event_handling_on_processing_node).

Min(a, b) == IF a < b THEN a ELSE b

\* int(numpy.ceil(a / float(b))), a >= 0, b > 0
CeilDiv(a, b) == (a + b - 1) \div b

\* s[a:b] for 0 <= a <= b: the bounds are clipped to the length of s
PySlice(s, a, b) == SubSeq(s, Min(a, Len(s)) + 1, Min(b, Len(s)))

\* NumFilesCurrNode rounding down.
NumFilesFloor(list, pool_size) == Len(list) \div (pool_size - 1)

\* num_files_curr_node = int(numpy.ceil(len(filelist) / float(node_pool_size - 1)))
NumFilesCurrNode(list, pool_size) == CeilDiv(Len(list), pool_size - 1)

\* filelist[((node_rank - 1) * num_files_curr_node) : (node_rank * num_files_curr_node)]
FilesCurrNode(list, node_rank, pool_size) ==
    PySlice(list, (node_rank - 1) * NumFilesCurrNode(list, pool_size),
                  node_rank * NumFilesCurrNode(list, pool_size))

\* initialize_event_handling_on_processing_node(node_rank, node_pool_size)
InitializeEventHandling(node_rank) ==
    /\ node_rank \in 1..(node_pool_size - 1)
    /\ node_rank \notin initialized
    /\ initialized' = initialized \cup {node_rank}
    /\ files_curr_node' =
         [files_curr_node EXCEPT ![node_rank] = FilesCurrNode(filelist, node_rank, node_pool_size)]
    /\ UNCHANGED <<parvars, countervars, startvars, topicvars, collectvars, queryvars, filelist,
                   node_pool_size>>

ShardInit ==
    /\ ParIdle /\ CounterIdle /\ StartIdle /\ TopicIdle /\ CollectIdle /\ QueryIdle
    /\ filelist \in {[i \in 1..n |-> i] : n \in 0..MaxFiles}
    /\ node_pool_size \in 2..MaxPool
    /\ initialized = {}
    /\ files_curr_node = [r \in 1..(MaxPool - 1) |-> <<>>]

ShardNext == \E node_rank \in 1..(MaxPool - 1) : InitializeEventHandling(node_rank)

ShardSpec == ShardInit /\ [][ShardNext]_vars

\* the shards of ranks 1..n, one after the other
RECURSIVE ShardsUpTo(_)
ShardsUpTo(n) == IF n = 0 THEN <<>> ELSE ShardsUpTo(n - 1) \o files_curr_node[n]

\* C16: the shards of the processing nodes partition the list: every shard is
\* a contiguous run of the list in its order, two shards share no item, and
\* when every rank has its shard the shards of ranks 1..P-1, one after the
\* other, are the list (every item exactly once, none missing).
C16_ShardsPartition ==
    /\ \A r \in initialized :
          \A i \in 1..(Len(files_curr_node[r]) - 1) :
             files_curr_node[r][i + 1] = files_curr_node[r][i] + 1
    /\ \A r \in initialized :
          \A i \in 1..Len(files_curr_node[r]) : files_curr_node[r][i] \in 1..Len(filelist)
    /\ \A r, q \in initialized :
          r # q => \A i \in 1..Len(files_curr_node[r]) :
                      \A j \in 1..Len(files_curr_node[q]) :
                         files_curr_node[r][i] # files_curr_node[q][j]
    /\ initialized = 1..(node_pool_size - 1) => ShardsUpTo(node_pool_size - 1) = filelist

\* Reached: 5 files on 3 processing nodes, shards of 2, 2 and 1 files.
C16_Witness ==
    /\ Len(filelist) = 5
    /\ node_pool_size = 4
    /\ initialized = {1, 2, 3}
    /\ files_curr_node[2] = <<3, 4>>
    /\ files_curr_node[3] = <<5>>

\* C17: every rank but the last receives exactly ceil(L/(P-1)) items; only
\* the last rank may receive fewer.
C17_OnlyLastIsShort ==
    \A r \in initialized :
       r < node_pool_size - 1 =>
          Len(files_curr_node[r]) = CeilDiv(Len(filelist), node_pool_size - 1)

--------------------------------------------------------------------------
\* Construction and start of a Parallelization Layer on the collecting node.
\* MPI: __init__ reads the size of MPI.COMM_WORLD and start() enters the
\* collecting loop on rank 0.  ZMQ: __init__ validates the parameters
\* (node_pool_size: int), creates one process for each rank of
\* range(1, node_pool_size), and start() starts them and enters the
\* collecting loop.

\* what construction and start leave alone
notstart == <<parvars, shardvars, countervars, topicvars, collectvars, queryvars, node_pool_size,
              engine_backend>>

\* ZMQ __init__: self._processing_nodes.append(processing_node)
CreateProcessingNode ==
    /\ engine = "init"
    /\ engine_backend = "zmq"
    /\ processing_nodes + 1 < node_pool_size
    /\ processing_nodes' = processing_nodes + 1
    /\ UNCHANGED <<notstart, engine, nodes_started>>

\* the end of __init__ and the call of start()
Construct ==
    /\ engine = "init"
    /\ engine_backend = "zmq" => ~(processing_nodes + 1 < node_pool_size)
    /\ engine' = "start"
    /\ UNCHANGED <<notstart, processing_nodes, nodes_started>>

\* ZMQ start(): for processing_node in self._processing_nodes: processing_node.start()
StartProcessingNode ==
    /\ engine = "start"
    /\ nodes_started < processing_nodes
    /\ nodes_started' = nodes_started + 1
    /\ UNCHANGED <<notstart, engine, processing_nodes>>

\* start(): initialize_collecting_node, then "while True"
EnterCollectingLoop ==
    /\ engine = "start"
    /\ nodes_started = processing_nodes
    /\ engine' = "collecting"
    /\ UNCHANGED <<notstart, processing_nodes, nodes_started>>

\* what an iteration of the collecting loop of a pool without processing
\* nodes leaves alone
notsolo == <<nodevars, monitor_num_events, shardvars, countervars, topicvars,
             collectvars, queryvars, node_pool_size, engine_backend, processing_nodes,
             nodes_started>>

\* The collecting loop testing the number of finished nodes at the top of
\* every iteration.
SoloIterationTestsFirst ==
    /\ engine = "collecting"
    /\ node_pool_size <= 1
    /\ IF num_no_more = node_pool_size - 1
       THEN engine' = "done" /\ UNCHANGED idle_calls
       ELSE WaitForData /\ UNCHANGED engine
    /\ UNCHANGED notsolo

\* One iteration of the "while True" of start() on rank 0 when the pool has
\* no processing node: nothing is ever sent to rank 0, the probe finds
\* nothing and wait_for_data is called.  The test of _num_no_more against
\* pool size - 1 is in the branch of a received end message.
SoloIteration ==
    /\ engine = "collecting"
    /\ node_pool_size <= 1
    /\ WaitForData
    /\ UNCHANGED <<notsolo, engine>>

StartInit ==
    /\ ParInit(0, "eager", MaxIdle) /\ backend = "mpi" /\ layer = "none"
    /\ ShardIdle /\ CounterIdle /\ TopicIdle /\ CollectIdle /\ QueryIdle
    /\ engine_backend \in Backends
    /\ node_pool_size \in (IF engine_backend = "mpi" THEN 1..MaxPool ELSE 0..MaxPool)
    /\ engine = "init"
    /\ processing_nodes = 0
    /\ nodes_started = 0

StartNext ==
    \/ CreateProcessingNode
    \/ Construct
    \/ StartProcessingNode
    \/ EnterCollectingLoop
    \/ SoloIteration

StartSpec == StartInit /\ [][StartNext]_vars

\* C18: with node_pool_size < 2 the construction fails and the collecting
\* loop is never entered.
C18_SmallPoolIsRejected ==
    node_pool_size < 2 => engine \in {"init", "OmConfigurationError"}

--------------------------------------------------------------------------
\* EventCounter (om.lib.event_management).

\* the values of an Optional[int] interval: None, 0..MaxInterval
Intervals == {<<>>} \cup {<<k>> : k \in 0..MaxInterval}

\* Truthy testing "is not None" only.
IsNotNone(x) == x # <<>>

\* if self._..._interval: None and 0 are false
Truthy(x) == x # <<>> /\ x[1] # 0

\* a % b == 0: "True" or "False", or the exception that % raises for b = 0
ModIsZero(a, b) ==
    IF b = 0 THEN "ZeroDivisionError"
    ELSE IF a % b = 0 THEN "True" ELSE "False"

\* if interval: return self._num_events % interval == 0 / else: return False
ShouldSend(interval) ==
    IF Truthy(interval) THEN ModIsZero(num_events, interval[1]) ELSE "False"

should_broadcast_data == ShouldSend(data_broadcast_interval)

\* should_send_hit_frame taking the number of hits for the number of events.
should_send_hit_frame_by_hits ==
    IF Truthy(hit_frame_sending_interval)
    THEN ModIsZero(num_hits, hit_frame_sending_interval[1])
    ELSE "False"

should_send_hit_frame == ShouldSend(hit_frame_sending_interval)

should_send_non_hit_frame == ShouldSend(non_hit_frame_sending_interval)

\* what the EventCounter leaves alone
notcounter == <<parvars, shardvars, startvars, topicvars, collectvars, queryvars, node_pool_size,
                intervals>>

add_hit_event ==
    /\ num_events < MaxCount
    /\ num_events' = num_events + 1
    /\ num_hits' = num_hits + 1
    /\ hit_calls' = hit_calls + 1
    /\ UNCHANGED <<notcounter, ranks_for_frame_request, non_hit_calls, requested,
                   report_calls, num_reports, raised>>

\* add_non_hit_event counting the event as a hit too.
add_non_hit_event_as_hit ==
    /\ num_events < MaxCount
    /\ num_events' = num_events + 1
    /\ num_hits' = num_hits + 1
    /\ non_hit_calls' = non_hit_calls + 1
    /\ UNCHANGED <<notcounter, ranks_for_frame_request, hit_calls, requested,
                   report_calls, num_reports, raised>>

add_non_hit_event ==
    /\ num_events < MaxCount
    /\ num_events' = num_events + 1
    /\ non_hit_calls' = non_hit_calls + 1
    /\ UNCHANGED <<notcounter, num_hits, ranks_for_frame_request, hit_calls, requested,
                   report_calls, num_reports, raised>>

\* report_speed(): with the interval set and the count a multiple of it,
\* float(interval) / float(now_time - self._old_time) is logged; the division
\* raises when the two readings of the clock are equal.
ReportSpeed ==
    /\ report_calls' = report_calls + 1
    /\ IF Truthy(speed_report_interval)
       THEN CASE ModIsZero(num_events, speed_report_interval[1]) = "True" ->
                   \E time_diff_is_zero \in BOOLEAN :
                      IF time_diff_is_zero
                      THEN raised' = TRUE /\ UNCHANGED num_reports
                      ELSE num_reports' = num_reports + 1 /\ UNCHANGED raised
              [] ModIsZero(num_events, speed_report_interval[1]) = "False" ->
                   UNCHANGED <<num_reports, raised>>
              [] OTHER -> raised' = TRUE /\ UNCHANGED num_reports
       ELSE UNCHANGED <<num_reports, raised>>

\* a call of report_speed() on its own
report_speed ==
    /\ report_calls < MaxReports
    /\ ReportSpeed
    /\ UNCHANGED <<notcounter, num_events, num_hits, ranks_for_frame_request, hit_calls,
                   non_hit_calls, requested>>

CounterInit ==
    /\ ParIdle /\ ShardIdle /\ StartIdle /\ TopicIdle /\ CollectIdle /\ QueryIdle
    /\ node_pool_size = PoolSize
    /\ speed_report_interval \in Intervals
    /\ data_broadcast_interval \in Intervals
    /\ hit_frame_sending_interval \in Intervals
    /\ non_hit_frame_sending_interval \in Intervals
    /\ CounterZero

CounterNext ==
    \/ add_hit_event
    \/ add_non_hit_event
    \/ report_speed

CounterSpec == CounterInit /\ [][CounterNext]_vars

\* cycle(range(1, node_pool_size)) is held as the position c of the element
\* that next() returns: the element is range(1, pool_size)[c], and the position
\* wraps after the last of the pool_size - 1 elements.

\* the cycle wrapping after pool_size elements.
NextCursorLong(c, pool_size) == (c + 1) % pool_size

NextCursor(c, pool_size) == (c + 1) % (pool_size - 1)

\* range(1, node_pool_size)[c]
RankAt(c) == 1 + c

\* get_rank_for_frame_request(): return next(self._ranks_for_frame_request)
get_rank_for_frame_request ==
    /\ Len(requested) < MaxRequests
    /\ requested' = Append(requested, RankAt(ranks_for_frame_request))
    /\ ranks_for_frame_request' = NextCursor(ranks_for_frame_request, node_pool_size)
    /\ UNCHANGED <<notcounter, num_events, num_hits, hit_calls, non_hit_calls,
                   report_calls, num_reports, raised>>

\* An EventCounter built for pools of 2 to MaxPool nodes, its intervals left
\* at None.
RequestInit ==
    /\ ParIdle /\ ShardIdle /\ StartIdle /\ TopicIdle /\ CollectIdle /\ QueryIdle
    /\ node_pool_size \in 2..MaxPool
    /\ CounterIdle

RequestNext ==
    \/ add_hit_event
    \/ add_non_hit_event
    \/ report_speed
    \/ get_rank_for_frame_request

RequestSpec == RequestInit /\ [][RequestNext]_vars

--------------------------------------------------------------------------
\* collect_data of the monitors, called on the collecting node once for every
\* envelope collected.

\* what collect_data leaves alone
notcollect == <<nodevars, queryvars, shardvars, startvars, topicvars, node_pool_size, intervals,
                ranks_for_frame_request, hit_calls, non_hit_calls, requested>>

\* XesProcessing.collect_data: update_plots; if should_broadcast_data(): send_data;
\* report_speed().  The EventCounter is read and never told of the envelope.
xes_collect_data ==
    /\ ~raised
    /\ collect_calls < MaxCalls
    /\ collect_calls' = collect_calls + 1
    /\ broadcasts' = IF should_broadcast_data = "True"
                     THEN Append(broadcasts, collect_calls + 1)
                     ELSE broadcasts
    /\ ReportSpeed
    /\ UNCHANGED <<notcollect, monitor, num_events, num_hits>>

\* XesProcessing.initialize_collecting_node: the EventCounter of the monitor
XesInit ==
    /\ ParIdle /\ ShardIdle /\ StartIdle /\ TopicIdle /\ CollectIdle /\ QueryIdle
    /\ node_pool_size = PoolSize
    /\ speed_report_interval \in Intervals
    /\ data_broadcast_interval \in Intervals
    /\ hit_frame_sending_interval = <<>>
    /\ non_hit_frame_sending_interval = <<>>
    /\ CounterZero

XesNext == xes_collect_data

XesSpec == XesInit /\ [][XesNext]_vars

\* The test monitor's cadence checks reading the count as it was before
\* "self._num_events += 1".
CountBeforeIncrement(n, msg) == n

\* self._num_events as the cadence checks of TestProcessing.collect_data read it
CountAtCadenceCheck(n, msg) == CollectCount(n, msg)

\* the intervals of the test monitor are required integers
RequiredIntervals == {<<k>> : k \in 0..MaxInterval}

\* TestProcessing.collect_data: self._num_events += 1; the data broadcast when
\* the count is a multiple of data_broadcast_interval; the speed report when
\* it is a multiple of speed_report_interval.  Neither modulo is guarded, and
\* the speed is a division by the time elapsed.
test_collect_data ==
    /\ ~raised
    /\ collect_calls < MaxCalls
    /\ collect_calls' = collect_calls + 1
    /\ \E msg \in {[rank |-> r] : r \in Workers} :
         /\ monitor_num_events' = CollectCount(monitor_num_events, msg)
         /\ LET n == CountAtCadenceCheck(monitor_num_events, msg)
                broadcast == ModIsZero(n, data_broadcast_interval[1])
                report == ModIsZero(n, speed_report_interval[1])
            IN  IF broadcast = "ZeroDivisionError"
                THEN raised' = TRUE /\ UNCHANGED <<broadcasts, num_reports>>
                ELSE /\ broadcasts' = IF broadcast = "True"
                                      THEN Append(broadcasts, collect_calls + 1)
                                      ELSE broadcasts
                     /\ CASE report = "True" ->
                               \E time_diff_is_zero \in BOOLEAN :
                                  IF time_diff_is_zero
                                  THEN raised' = TRUE /\ UNCHANGED num_reports
                                  ELSE num_reports' = num_reports + 1 /\ UNCHANGED raised
                          [] report = "False" -> UNCHANGED <<num_reports, raised>>
                          [] OTHER -> raised' = TRUE /\ UNCHANGED num_reports
    /\ UNCHANGED <<notcollect, idle_calls, num_events, num_hits, report_calls>>

\* TestProcessing.initialize_collecting_node
TestInit ==
    /\ ParIdle /\ ShardIdle /\ StartIdle /\ TopicIdle /\ CollectIdle /\ QueryIdle
    /\ node_pool_size = PoolSize
    /\ speed_report_interval \in RequiredIntervals
    /\ data_broadcast_interval \in RequiredIntervals
    /\ hit_frame_sending_interval = <<>>
    /\ non_hit_frame_sending_interval = <<>>
    /\ CounterZero

TestNext == test_collect_data

TestSpec == TestInit /\ [][TestNext]_vars

--------------------------------------------------------------------------
\* One feedback message published by rank 0 of the ZMQ backend and the SUB
\* socket of one processing node.

\* if receiving_rank == 0: send_string("all#") else: send_string(f"{receiving_rank}#")
TopicFor(receiving_rank) ==
    IF receiving_rank = 0 THEN AllTopic ELSE RankTopic(receiving_rank)

\* The SUB socket of rank sub_rank filters the message by its topic.
Deliver ==
    /\ delivered = "pending"
    /\ delivered' = IF Subscribed(sub_rank, TopicFor(topic_rank)) THEN "received"
                    ELSE "dropped"
    /\ UNCHANGED <<parvars, shardvars, countervars, startvars, collectvars, queryvars,
                   node_pool_size, sub_rank, topic_rank>>

TopicInit ==
    /\ ParIdle /\ ShardIdle /\ CounterIdle /\ StartIdle /\ CollectIdle /\ QueryIdle
    /\ node_pool_size = PoolSize
    /\ sub_rank \in 1..MaxRank
    /\ topic_rank \in 0..MaxRank
    /\ delivered = "pending"

TopicNext == Deliver

TopicSpec == TopicInit /\ [][TopicNext]_vars

\* C19: with data_broadcast_interval = k >= 1, should_broadcast_data() is true
\* exactly when the event count is a positive multiple of k.
C19_BroadcastOnPositiveMultiples ==
    (data_broadcast_interval # <<>> /\ data_broadcast_interval[1] >= 1) =>
       ((should_broadcast_data = "True") <=>
           (num_events > 0 /\ num_events % data_broadcast_interval[1] = 0))

\* the interval is None or 0
Unset(x) == x = <<>> \/ x = <<0>>

\* C20: a cadence query whose interval is None or 0 answers False at every
\* event count, report_speed with its interval None or 0 logs nothing, and
\* neither raises ZeroDivisionError.
C20_UnsetIntervalIsFalse ==
    /\ Unset(data_broadcast_interval) => should_broadcast_data = "False"
    /\ Unset(hit_frame_sending_interval) => should_send_hit_frame = "False"
    /\ Unset(non_hit_frame_sending_interval) => should_send_non_hit_frame = "False"
    /\ Unset(speed_report_interval) => num_reports = 0 /\ ~raised

\* Reached: intervals None and 0, events of both kinds recorded and
\* report_speed called.
C20_Witness ==
    /\ speed_report_interval = <<0>>
    /\ data_broadcast_interval = <<0>>
    /\ hit_frame_sending_interval = <<>>
    /\ non_hit_frame_sending_interval = <<0>>
    /\ num_events = 2
    /\ num_hits = 1
    /\ report_calls = 2

\* the number of calls i..j that returned rank r
TimesRequested(i, j, r) == Cardinality({k \in i..j : requested[k] = r})

\* C21: in a pool of P >= 2 nodes get_rank_for_frame_request() never returns
\* rank 0 and always a rank of 1..P-1, the returned ranks repeat with period
\* P-1, and any m*(P-1) consecutive calls, wherever they start, return every
\* rank of 1..P-1 exactly m times.
C21_RoundRobin ==
    node_pool_size >= 2 =>
       LET P == node_pool_size
           n == Len(requested)
       IN  /\ \A i \in 1..n : requested[i] # 0 /\ requested[i] \in 1..(P - 1)
           /\ \A i \in 1..n : i + (P - 1) <= n => requested[i + (P - 1)] = requested[i]
           /\ \A i \in 1..n : \A m \in 1..MaxRequests :
                 i + m * (P - 1) - 1 <= n =>
                    \A r \in 1..(P - 1) : TimesRequested(i, i + m * (P - 1) - 1, r) = m

\* Reached: a pool of 4 nodes asked 8 times, the other counters in use
\* between the calls.
C21_Witness ==
    /\ node_pool_size = 4
    /\ requested = <<1, 2, 3, 1, 2, 3, 1, 2>>
    /\ num_events = 2

\* C22: the event count is the number of add_hit_event and add_non_hit_event
\* calls, the hit count is the number of add_hit_event calls, so
\* 0 <= num_hits <= num_events at all times, and no call lowers a counter.
C22_CountsFollowCalls ==
    /\ [](/\ num_events = hit_calls + non_hit_calls
          /\ num_hits = hit_calls
          /\ 0 <= num_hits
          /\ num_hits <= num_events)
    /\ [][num_events' >= num_events /\ num_hits' >= num_hits]_vars

\* Reached: one hit and two non-hits recorded.
C22_Witness ==
    /\ hit_calls = 1
    /\ non_hit_calls = 2
    /\ num_events = 3
    /\ num_hits = 1

\* the answer the event count n and an interval determine
DivisibleBy(n, interval) == ~Unset(interval) /\ n % interval[1] = 0

TotalCollected == SumTo([w \in Workers |-> Len(collected[w])], PoolSize - 1)

\* C24: the count the test monitor keeps on the collecting node depends on
\* which envelopes have been collected and not on the order of their arrival:
\* it is at all times the number of envelopes collected, and, when the
\* collecting node has finished on the normal path with no rank crashed, the
\* number of non-terminal envelopes the processing nodes sent, whatever the
\* interleaving of their sends.
C24_CountIsOrderFree ==
    /\ monitor_num_events = TotalCollected
    /\ (cpc = "done" /\ \A w \in Workers : wpc[w] # "crashed") =>
          monitor_num_events =
             SumTo([w \in Workers |-> Len(NonTerminal(sent[w]))], PoolSize - 1)

\* Reached: a normal exit after ranks 1 and 2 each sent one envelope (the two
\* arrival orders lead to this state).
C24_Witness ==
    /\ cpc = "done"
    /\ Len(collected[1]) = 1
    /\ Len(collected[2]) = 1
    /\ monitor_num_events = 2

\* the feedback sends of rank 0 that have not completed
IncompleteFeedbackSends == SumTo([w \in Workers |-> Len(fbq[w])], PoolSize - 1)

\* C25: with sends that complete on reception, the collecting node has at
\* most one feedback send that has not completed and every processing node
\* at most one data send (record, final data or end message) that has not
\* completed: a send is issued only when the one before it is complete.
C25_OneIncompleteSend ==
    sendmode = "rendezvous" =>
       /\ IncompleteFeedbackSends <= 1
       /\ \A w \in Workers : Len(dataq[w]) <= 1

\* Reached: rank 0 has sent the first of two feedback messages, which rank 1
\* has not received yet, the second is waiting for it, and rank 2 has a data
\* send in progress.
C25_Witness ==
    /\ sendmode = "rendezvous"
    /\ Len(fbq[1]) = 1
    /\ Len(todo) = 1
    /\ Len(dataq[2]) = 1

\* the feedback messages sent to rank w that rank w has not received
Unconsumed(w) == Cardinality({i \in 1..Len(fbq[w]) : fbq[w][i] # stop_dict})

\* C26: at any time at most one feedback message sent by the collecting node
\* to a given processing node has not yet been consumed by that node.
C26_OneUnconsumedFeedback == \A w \in Workers : Unconsumed(w) <= 1

\* rank w has left its event loop because its event generator was exhausted
Exhausted(w) == wpc[w] \in {"finishing", "terminated"}

\* C27: end_processing_on_processing_node is called on a rank exactly once
\* when its events are exhausted (and not otherwise); final data it returns is
\* sent with the rank, and the end message of the rank comes right after it,
\* with no end message before it; when the collecting loop has counted the
\* end message of the rank, the final data has been passed to collect_data.
C27_FinalBeforeEnd ==
    \A w \in Workers :
       /\ end_calls[w] = (IF Exhausted(w) THEN 1 ELSE 0)
       /\ \A i \in 1..Len(sent[w]) :
             "final" \in sent[w][i].keys =>
                /\ Exhausted(w)
                /\ sent[w][i].rank = w
                /\ \A j \in 1..i : sent[w][j].keys # end_dict
                /\ i < Len(sent[w]) => sent[w][i + 1].keys = end_dict
                /\ wpc[w] = "terminated" => i = Len(sent[w]) - 1
                /\ ends_received[w] >= 1 =>
                      \E k \in 1..Len(collected[w]) : collected[w][k] = sent[w][i]

\* Reached: rank 1 ended with final data, which was collected before its end
\* message was counted, while rank 2 is still producing.
C27_Witness ==
    /\ wpc[1] = "terminated"
    /\ end_calls[1] = 1
    /\ HasFinal(collected[1])
    /\ ends_received[1] = 1
    /\ wpc[2] = "producing"

\* C28: the SUB socket of rank r, subscribed to "r#" and "all#", receives a
\* published message exactly when its topic is "r#" or "all#"; a message
\* published for another rank s is dropped, also when the decimal digits of
\* one of r and s begin those of the other (1 and 11).
C28_TopicReachesItsRank ==
    /\ delivered = "received" => topic_rank = 0 \/ topic_rank = sub_rank
    /\ delivered = "dropped" => topic_rank # 0 /\ topic_rank # sub_rank

\* Reached: the message for rank 11 was dropped by rank 1.
C28_Witness ==
    /\ sub_rank = 1
    /\ topic_rank = 11
    /\ delivered = "dropped"

\* the messages sent to rank 0 and not yet received
TotalPending == SumTo([w \in Workers |-> Len(dataq[w])], PoolSize - 1)

\* C29: an iteration of the collecting loop either receives one pending
\* envelope and handles it (counts the end message, or passes the envelope to
\* collect_data and counts it) without calling wait_for_data, or, having
\* found no envelope pending, calls wait_for_data once and receives and
\* handles nothing.
C29_ReceiveOrIdle ==
    [][/\ idle_calls' # idle_calls =>
             /\ cpc = "collecting"
             /\ Pending = {}
             /\ idle_calls' = idle_calls + 1
             /\ UNCHANGED <<dataq, num_no_more, num_collected_events, collected,
                            monitor_num_events, fbq, cpc>>
       /\ TotalPending' < TotalPending =>
             /\ cpc = "collecting"
             /\ idle_calls' = idle_calls
             /\ \E w \in Pending :
                   /\ dataq' = [dataq EXCEPT ![w] = Tail(@)]
                   /\ IF IsEnd(Head(dataq[w]))
                      THEN /\ num_no_more' = num_no_more + 1
                           /\ UNCHANGED <<num_collected_events, collected>>
                      ELSE /\ num_collected_events' = num_collected_events + 1
                           /\ collected' = [collected EXCEPT ![w] =
                                              Append(@, Head(dataq[w]))]
                           /\ UNCHANGED num_no_more]_vars

\* Reached: wait_for_data was called twice, an envelope was collected and an
\* end message counted.
C29_Witness ==
    /\ idle_calls = 2
    /\ num_collected_events >= 1
    /\ num_no_more >= 1
    /\ cpc = "collecting"

\* C30: end_processing_on_collecting_node is called at most once, and only
\* when the collecting loop has received PoolSize-1 end messages; once it has
\* been called no envelope is passed to collect_data any more; a collecting
\* node that was interrupted and runs shutdown() has not called it.
C30_EndHookOnce ==
    /\ [](/\ end_calls[0] <= 1
          /\ end_calls[0] = 1 =>
                TotalEndsReceived = PoolSize - 1 /\ num_no_more = PoolSize - 1
          /\ Interrupted => end_calls[0] = 0)
    /\ [][end_calls[0] >= 1 =>
             /\ collected' = collected
             /\ monitor_num_events' = monitor_num_events
             /\ num_collected_events' = num_collected_events
             /\ end_calls'[0] = end_calls[0]]_vars

\* Reached: the collecting node was interrupted when all ranks but one had
\* ended, and has left shutdown() without the end hook having been called.
C30_Witness ==
    /\ cpc = "stopped"
    /\ num_no_more = PoolSize - 2
    /\ num_collected_events >= 1
    /\ end_calls[0] = 0

\* C31: once the collecting node has been interrupted, what shutdown()
\* receives is discarded: no envelope is passed to collect_data, the
\* collected-event count and the monitor's count stay as they are, and end
\* messages received are not counted in num_no_more.
C31_DrainedIsDiscarded ==
    [][Interrupted =>
          /\ collected' = collected
          /\ num_collected_events' = num_collected_events
          /\ monitor_num_events' = monitor_num_events
          /\ num_no_more' = num_no_more
          /\ ends_received' = ends_received
          /\ end_calls'[0] = end_calls[0]]_vars

\* Reached: after the interrupt shutdown() has received a data envelope and
\* the end message of rank 1, neither of which was collected or counted.
C31_Witness ==
    /\ Interrupted
    /\ dataq[1] = <<>>
    /\ Len(NonTerminal(sent[1])) > Len(collected[1])
    /\ EndsSent(1) = 1
    /\ ends_received[1] = 0
    /\ num_no_more = 0

\* C32: the receives of the collecting loop and of the event loop follow a
\* probe that found a message, so they cannot block: the collecting node with
\* no message pending can run its iteration (the idle branch), and a
\* processing node with no feedback pending, whose generator yields an event,
\* can run its iteration, the feedback queue left as it is.
C32_ReceivesDoNotBlock ==
    /\ (cpc = "collecting" /\ todo = <<>> /\ Pending = {}) =>
          ENABLED (CollectingIteration /\ UNCHANGED <<dataq, collected, num_no_more>>)
    /\ \A w \in Workers :
          (/\ wpc[w] = "producing"
           /\ SendComplete(w)
           /\ TotalYielded + TotalFinal < max_events
           /\ fbq[w] = <<>>) =>
             ENABLED (ProcessingIteration(w) /\ yielded'[w] = yielded[w] + 1
                                             /\ UNCHANGED fbq)

\* Reached: the collecting node with nothing pending after it collected an
\* envelope, and rank 2 in its event loop with no feedback pending and an
\* event to come.
C32_Witness ==
    /\ cpc = "collecting"
    /\ Pending = {}
    /\ num_collected_events = 1
    /\ wpc[2] = "producing"
    /\ fbq[2] = <<>>
    /\ TotalYielded + TotalFinal < max_events

\* the calls 1..n whose ordinal is a positive multiple of k, in order
RECURSIVE MultiplesUpTo(_, _)
MultiplesUpTo(k, n) ==
    IF n = 0 THEN <<>>
    ELSE MultiplesUpTo(k, n - 1) \o (IF n % k = 0 THEN <<n>> ELSE <<>>)

\* C33: with data_broadcast_interval = k >= 1 the XES monitor broadcasts once
\* every k collected envelopes: consecutive broadcasts are k envelopes apart,
\* and an envelope whose ordinal is not a multiple of k triggers none.
C33_XesBroadcastsEveryKth ==
    (data_broadcast_interval # <<>> /\ data_broadcast_interval[1] >= 1) =>
       LET k == data_broadcast_interval[1]
       IN  /\ \A i \in 1..Len(broadcasts) : broadcasts[i] % k = 0
           /\ \A i \in 1..(Len(broadcasts) - 1) : broadcasts[i + 1] - broadcasts[i] = k

\* C34: after n envelopes have been passed to the XES monitor's collect_data
\* the EventCounter's get_num_events() is n, the total that
\* end_processing_on_collecting_node reports.
C34_XesCountsEnvelopes == num_events = collect_calls

\* C35: the test monitor's collect_data adds 1 to its count before the
\* cadence check: the calls that broadcast are exactly those whose ordinal
\* (the number collected so far, the current one included) is a positive
\* multiple of data_broadcast_interval, and the count is at all times the
\* number of collect_data calls.
C35_TestBroadcastsOnMultiples ==
    /\ monitor_num_events = collect_calls
    /\ data_broadcast_interval[1] >= 1 =>
          broadcasts = MultiplesUpTo(data_broadcast_interval[1], collect_calls)
    /\ data_broadcast_interval[1] = 0 => broadcasts = <<>>

\* Reached: interval 2, five envelopes collected, broadcasts on the second
\* and the fourth.
C35_Witness ==
    /\ data_broadcast_interval = <<2>>
    /\ collect_calls = 5
    /\ monitor_num_events = 5
    /\ broadcasts = <<2, 4>>
    /\ ~raised

\* the ranks whose end message the collecting loop has received
RanksEnded == {w \in Workers : ends_received[w] >= 1}

WaitsOnFeedbackTo(w) == cpc = "collecting" /\ todo # <<>> /\ fbq[w] # <<>>

\* rank w will not receive feedback: it has left its event loop, or it is in
\* req.Wait() on a data send that only rank 0 can complete
WillNotReceive(w) ==
    \/ wpc[w] \in {"finishing", "terminated"}
    \/ wpc[w] = "producing" /\ dataq[w] # <<>>

\* C37: in a run on MPI without crash and interrupt, with sends that complete
\* on reception, the collecting node is never waiting for the completion of
\* a feedback send to a rank that is itself waiting for a send to rank 0 or
\* has left its event loop and receives no feedback any more.
C37_NoRendezvousDeadlock ==
    \A w \in Workers : ~(WaitsOnFeedbackTo(w) /\ WillNotReceive(w))

\* C38: with a pool of one node the collecting node, once in its collecting
\* loop, stays in it: no iteration leaves the loop, counts a finished node or
\* calls end_processing_on_collecting_node.
C38_SoloCollectorNeverEnds ==
    [][(node_pool_size = 1 /\ engine = "collecting") =>
          /\ engine' = "collecting"
          /\ num_no_more' = num_no_more
          /\ end_calls' = end_calls]_vars

\* Reached: a pool of one node whose collecting loop has called
\* wait_for_data twice, the number of finished nodes being pool size - 1.
C38_Witness ==
    /\ node_pool_size = 1
    /\ engine = "collecting"
    /\ idle_calls = 2
    /\ num_no_more = node_pool_size - 1
    /\ end_calls[0] = 0

\* C39: the collecting loop counts as finished only the end messages of the
\* processing nodes: num_no_more is the number of end messages received, and
\* every record (whatever its keys) and every final payload received has
\* been passed to collect_data.
C39_OnlyEndMessagesCount ==
    /\ num_no_more = TotalEndsReceived
    /\ \A w \in Workers :
          Len(collected[w]) + Len(NonTerminal(dataq[w])) = Len(NonTerminal(sent[w]))

--------------------------------------------------------------------------
\* The operations of the EventCounter that only return a value.

QueryOps == {"should_broadcast_data", "should_send_hit_frame",
             "should_send_non_hit_frame", "get_num_events", "get_num_hits",
             "get_start_timestamp"}

\* return self._num_events
get_num_events == num_events

\* return self._num_hits
get_num_hits == num_hits

\* the value an operation returns: a bool as flag, an int as number; the
\* float of get_start_timestamp, set once by __init__, is not modelled
Return(op) ==
    CASE op = "should_broadcast_data" ->
             [op |-> op, flag |-> should_broadcast_data, number |-> -1]
      [] op = "should_send_hit_frame" ->
             [op |-> op, flag |-> should_send_hit_frame, number |-> -1]
      [] op = "should_send_non_hit_frame" ->
             [op |-> op, flag |-> should_send_non_hit_frame, number |-> -1]
      [] op = "get_num_events" -> [op |-> op, flag |-> "None", number |-> get_num_events]
      [] op = "get_num_hits" -> [op |-> op, flag |-> "None", number |-> get_num_hits]
      [] op = "get_start_timestamp" -> [op |-> op, flag |-> "None", number |-> -1]

\* what a query operation leaves alone
notquery == <<parvars, shardvars, startvars, topicvars, collectvars, node_pool_size,
              intervals, hit_calls, non_hit_calls, requested, report_calls, num_reports,
              raised>>

\* A query operation taking the next element of the cycle of ranks.
QueryTakingNextRank(op) ==
    /\ query_calls < MaxQueries
    /\ query_calls' = query_calls + 1
    /\ returned' = Return(op)
    /\ ranks_for_frame_request' = NextCursor(ranks_for_frame_request, node_pool_size)
    /\ UNCHANGED <<notquery, num_events, num_hits>>

\* a call of one of the query operations
Query(op) ==
    /\ query_calls < MaxQueries
    /\ query_calls' = query_calls + 1
    /\ returned' = Return(op)
    /\ UNCHANGED <<notquery, num_events, num_hits, ranks_for_frame_request>>

\* An EventCounter of a pool of PoolSize nodes, its four intervals set to the
\* same value (None included), on which every operation is called.
QueryInit ==
    /\ ParIdle /\ ShardIdle /\ StartIdle /\ TopicIdle /\ CollectIdle /\ QueryIdle
    /\ node_pool_size = PoolSize
    /\ speed_report_interval \in Intervals
    /\ data_broadcast_interval = speed_report_interval
    /\ hit_frame_sending_interval = speed_report_interval
    /\ non_hit_frame_sending_interval = speed_report_interval
    /\ CounterZero

QueryNext ==
    \/ add_hit_event
    \/ add_non_hit_event
    \/ report_speed
    \/ get_rank_for_frame_request
    \/ \E op \in QueryOps : Query(op)

QuerySpec == QueryInit /\ [][QueryNext]_vars

\* C40: a call of a query operation or of report_speed leaves num_events,
\* num_hits and the position in the cycle of ranks as they were; a call of
\* get_rank_for_frame_request leaves num_events and num_hits as they were and
\* moves the position to the next rank of the cycle; add_hit_event and
\* add_non_hit_event leave the position as it was.
C40_QueriesAreReadOnly ==
    [][ /\ (query_calls' # query_calls \/ report_calls' # report_calls)
            => UNCHANGED <<num_events, num_hits, ranks_for_frame_request>>
        /\ requested' # requested
            => /\ UNCHANGED <<num_events, num_hits>>
               /\ ranks_for_frame_request'
                      = NextCursor(ranks_for_frame_request, node_pool_size)
        /\ (hit_calls' # hit_calls \/ non_hit_calls' # non_hit_calls)
            => UNCHANGED ranks_for_frame_request ]_vars

\* every kind of operation has been called on a counter that has counted a
\* hit and whose position in the cycle is not the first
C40_Witness ==
    /\ query_calls = MaxQueries
    /\ returned.op = "get_num_hits"
    /\ returned.number = 1
    /\ report_calls > 0
    /\ num_events = 2
    /\ ranks_for_frame_request = 1
    /\ Len(requested) = 1

====
